---- MODULE Spec2Model ----
(***************************************************************************)
(* A model of tomato's SegmentExtractor                                    *)
(* (src/src/tomato/symbolic/symbtr/segment.py): the normalisation of a     *)
(* boundary list (_parse_bounds, _crop_consec_bounds), the slicing of the  *)
(* score into segments with their sections (_extract, _get_section_idx)    *)
(* and the two entry points extract_phrases and extract_segments.          *)
(*                                                                         *)
(* Python lists are sequences; a Python position p is the TLA+ index p+1.  *)
(* Note indices, del_idx and next_to_start_idx keep Python's 0-based       *)
(* values.  A score is its 'code' list.  The segment fields name, slug,    *)
(* flavor and lyrics are computed from score['lyrics'] and never read      *)
(* back by the slicing, so a segment is modelled by start_note, end_note   *)
(* and sections.  `segments` is the list _extract has built when it hands  *)
(* it to the StructureLabeler (segment.py line 137).                       *)
(***************************************************************************)
EXTENDS Integers, Sequences, FiniteSets, TLC

VARIABLES
    crop_consecutive_bounds, \* self.crop_consecutive_bounds
    pc,                      \* "idle" or the method whose call has ended
    score,                   \* score['code'] of the last call
    first_note_idx,          \* ScoreProcessor.get_first_note_index(score)
    given,                   \* the bound list handed to _parse_bounds /
                             \* _crop_consec_bounds by the last call
    sections,                \* the sections argument (<<>>: None or empty)
    called,                  \* the last call reached _extract
    bounds,                  \* the list left by _parse_bounds / the crop
    prev_bounds,             \* the list before the latest crop call
    ncrop,                   \* crop calls made on `bounds` so far
    segments,                \* the segments _extract built
    err                      \* the exception that ended the call, or "none"

vars == <<crop_consecutive_bounds, pc, score, first_note_idx, given, sections,
          called, bounds, prev_bounds, ncrop, segments, err>>

(* ------------------------------ bounds -------------------------------- *)

\* longest score of the boundary specification
MaxLen == 5
\* longest supplied boundary list of the boundary specification
MaxBounds == 3
\* largest bound of a list handed to _crop_consec_bounds directly
MaxIdx == 8
\* longest score of the section specification
SecLen == 3
\* longest section list of the section specification
MaxSections == 2

(* ------------------------------ helpers ------------------------------- *)

Range(s) == {s[i] : i \in 1..Len(s)}

Min(S) == CHOOSE x \in S : \A y \in S : x <= y

RECURSIVE SortedList(_)
\* sorted(list(S)) of a set of integers
SortedList(S) ==
    IF S = {} THEN <<>>
    ELSE <<Min(S)>> \o SortedList(S \ {Min(S)})

RECURSIVE InsertDesc(_, _)
InsertDesc(x, s) ==
    IF s = <<>> THEN <<x>>
    ELSE IF x >= Head(s) THEN <<x>> \o s
         ELSE <<Head(s)>> \o InsertDesc(x, Tail(s))

RECURSIVE SortedReverse(_)
\* sorted(del_idx, reverse=True): a list sorted descending, duplicates kept
SortedReverse(s) ==
    IF s = <<>> THEN <<>>
    ELSE InsertDesc(Head(s), SortedReverse(Tail(s)))

(* ------------------------ _crop_consec_bounds ------------------------- *)

RECURSIVE CropScanNoPop(_, _, _, _)
\* CropScan with the pop of the leading run forgotten: a bound next to the
\* start is recorded in next_to_start_idx and not in del_idx
CropScanNoPop(b, i, del_idx, next_to_start_idx) ==
    IF i > Len(b) - 2
    THEN [del_idx |-> del_idx, next_to_start_idx |-> next_to_start_idx]
    ELSE IF b[i + 2] - b[i + 1] = 1
         THEN IF (b[i + 2] - 1) \in Range(next_to_start_idx)
              THEN CropScanNoPop(b, i + 1, del_idx,
                                 Append(next_to_start_idx, i + 1))
              ELSE CropScanNoPop(b, i + 1, Append(del_idx, i),
                                 next_to_start_idx)
         ELSE CropScanNoPop(b, i + 1, del_idx, next_to_start_idx)

RECURSIVE CropScan(_, _, _, _)
\* the loop over i in range(0, len(bounds) - 1): del_idx and
\* next_to_start_idx after the iterations i, i+1, ...
CropScan(b, i, del_idx, next_to_start_idx) ==
    IF i > Len(b) - 2
    THEN [del_idx |-> del_idx, next_to_start_idx |-> next_to_start_idx]
    ELSE IF b[i + 2] - b[i + 1] = 1
         THEN IF (b[i + 2] - 1) \in Range(next_to_start_idx)
              THEN CropScan(b, i + 1, Append(del_idx, i + 1),
                            Append(next_to_start_idx, i + 1))
              ELSE CropScan(b, i + 1, Append(del_idx, i), next_to_start_idx)
         ELSE CropScan(b, i + 1, del_idx, next_to_start_idx)

RECURSIVE DelAll(_, _)
\* for index in idxs: del bounds[index]; a position past the end raises
\* IndexError and leaves the list as it is then
DelAll(b, idxs) ==
    IF idxs = <<>> THEN [bounds |-> b, err |-> "none"]
    ELSE IF Head(idxs) >= Len(b) THEN [bounds |-> b, err |-> "IndexError"]
         ELSE DelAll(SubSeq(b, 1, Head(idxs)) \o
                     SubSeq(b, Head(idxs) + 2, Len(b)), Tail(idxs))

\* DelOrder without reverse=True: the positions popped in ascending order
DelOrderAscending(del_idx) ==
    LET d == SortedReverse(del_idx)
    IN  [k \in 1..Len(d) |-> d[Len(d) + 1 - k]]

\* DelOrder over set(del_idx): each position popped once
DelOrderOnce(del_idx) == SortedReverse(SortedList(Range(del_idx)))

\* the positions to pop, in the order the code pops them
DelOrder(del_idx) == SortedReverse(del_idx)

_crop_consec_bounds(b, first_bound_idx) ==
    DelAll(b, DelOrder(CropScan(b, 0, <<>>, <<first_bound_idx + 1>>).del_idx))

(* --------------------------- _parse_bounds ---------------------------- *)

\* all(last_bound_idx >= b >= first_bound_idx for b in bounds)
all_bounds_in_score(b, first_bound_idx, last_bound_idx) ==
    \A k \in 1..Len(b) : last_bound_idx >= b[k] /\ b[k] >= first_bound_idx

\* bounds = sorted(list(set(bounds))) after the insert and the append
Tidy(b, first_bound_idx, last_bound_idx) ==
    SortedList(Range(<<first_bound_idx>> \o b \o <<last_bound_idx>>))

_parse_bounds(b, sc, first_bound_idx, crop) ==
    LET last_bound_idx == Len(sc)
        tidy == Tidy(b, first_bound_idx, last_bound_idx)
        cropped == IF crop THEN _crop_consec_bounds(tidy, first_bound_idx)
                   ELSE [bounds |-> tidy, err |-> "none"]
    IN  IF cropped.err # "none" THEN cropped
        ELSE IF all_bounds_in_score(cropped.bounds, first_bound_idx,
                                    last_bound_idx)
             THEN cropped
             ELSE [bounds |-> cropped.bounds, err |-> "OutOfRange"]

(* ------------------------- _get_section_idx --------------------------- *)

\* section_idx: the indices i (from 0, ascending) of the sections with
\* sec['start_note'] - 1 <= note_idx <= sec['end_note'] - 1
SectionMatches(secs, note_idx) ==
    SelectSeq([k \in 1..Len(secs) |-> k - 1],
              LAMBDA i : /\ secs[i + 1].start_note - 1 <= note_idx
                         /\ note_idx <= secs[i + 1].end_note - 1)

\* _get_section_idx that takes the first match and asserts only that there
\* is one
GetFirstSectionIdx(secs, note_idx) ==
    LET section_idx == SectionMatches(secs, note_idx)
    IN  IF Len(section_idx) >= 1
        THEN [idx |-> section_idx[1], err |-> "none"]
        ELSE [idx |-> -1, err |-> "AmbiguousSection"]

\* assert len(section_idx) == 1; return section_idx[0]
_get_section_idx(secs, note_idx) ==
    LET section_idx == SectionMatches(secs, note_idx)
    IN  IF Len(section_idx) = 1
        THEN [idx |-> section_idx[1], err |-> "none"]
        ELSE [idx |-> -1, err |-> "AmbiguousSection"]

(* ------------------------------ _extract ------------------------------ *)

start_note_idx(b, pp) == b[pp + 1]

\* end_note_idx without the - 1: the next bound itself
EndAtNextBound(b, pp) == b[pp + 2]

end_note_idx(b, pp) == b[pp + 2] - 1

\* segment_sections over range(start_section_idx, end_section_idx): the
\* section of the end note left out
SectionsBeforeEnd(secs, start_section_idx, end_section_idx) ==
    [k \in 1..(IF end_section_idx > start_section_idx
               THEN end_section_idx - start_section_idx ELSE 0) |->
        [section_idx |-> start_section_idx + k - 1,
         melodic_structure |-> secs[start_section_idx + k].melodic_structure,
         lyrics_structure |-> secs[start_section_idx + k].lyrics_structure]]

\* zip(range(start_section_idx, end_section_idx + 1),
\*     sections[start_section_idx:end_section_idx + 1])
segment_sections(secs, start_section_idx, end_section_idx) ==
    [k \in 1..(IF end_section_idx >= start_section_idx
               THEN end_section_idx - start_section_idx + 1 ELSE 0) |->
        [section_idx |-> start_section_idx + k - 1,
         melodic_structure |-> secs[start_section_idx + k].melodic_structure,
         lyrics_structure |-> secs[start_section_idx + k].lyrics_structure]]

RECURSIVE BuildSegments(_, _, _, _)
\* the loop over pp in range(0, len(bounds) - 1), from iteration pp on, with
\* the segments appended so far; a failed assertion ends the call
BuildSegments(b, secs, pp, segs) ==
    IF pp > Len(b) - 2 THEN [segments |-> segs, err |-> "none"]
    ELSE LET s == start_note_idx(b, pp)
             e == end_note_idx(b, pp)
         IN  IF secs = <<>>
             THEN BuildSegments(b, secs, pp + 1,
                      Append(segs, [start_note |-> s, end_note |-> e,
                                    sections |-> <<>>]))
             ELSE LET ss == _get_section_idx(secs, s)
                      es == _get_section_idx(secs, e)
                  IN  IF ss.err # "none" \/ es.err # "none"
                      THEN [segments |-> <<>>, err |-> "AmbiguousSection"]
                      ELSE BuildSegments(b, secs, pp + 1,
                               Append(segs,
                                   [start_note |-> s, end_note |-> e,
                                    sections |->
                                        segment_sections(secs, ss.idx,
                                                         es.idx)]))

_extract(b, sc, first, secs, crop) ==
    LET parsed == _parse_bounds(b, sc, first, crop)
        built == BuildSegments(parsed.bounds, secs, 0, <<>>)
    IN  IF parsed.err # "none"
        THEN [bounds |-> parsed.bounds, segments |-> <<>>,
              err |-> parsed.err]
        ELSE [bounds |-> parsed.bounds, segments |-> built.segments,
              err |-> built.err]

(* ---------------------------- entry points ---------------------------- *)

\* a note that is not a boundary
NOTE == 9
bound_codes == {51, 53, 54, 55}
anno_codes == {53, 54, 55}
Codes == {NOTE} \cup bound_codes

_get_all_bounds_in_score(codes, sc, first) ==
    <<first>> \o SelectSeq([k \in 1..Len(sc) |-> k - 1],
                           LAMBDA i : sc[i + 1] \in codes /\ i > first)

anno_bounds(sc) ==
    SelectSeq([k \in 1..Len(sc) |-> k - 1], LAMBDA i : sc[i + 1] \in anno_codes)

\* bounds = [b - 1 for b in segment_note_bound_idx]
ToPythonIdx(idx) == [k \in 1..Len(idx) |-> idx[k] - 1]

(* ------------------------------- inputs ------------------------------- *)

\* the lists of at most n elements of S
ListsOver(S, n) == UNION {[1..k -> S] : k \in 0..n}

\* a score of n notes none of which carries a boundary code
NoteScore(n) == [k \in 1..n |-> NOTE]

\* what ScoreProcessor.get_first_note_index may answer for a score: the
\* index of one of its notes (a row that carries no boundary code)
FirstNoteIndices(sc) == {i \in 0..(Len(sc) - 1) : sc[i + 1] = NOTE}

\* the labels of the k-th section of a list: opaque, one pair per position
MelodicLabels == <<"A", "B", "C", "D">>
LyricsLabels == <<"a", "b", "c", "d">>

\* the section lists of at most n sections over a score of len notes, each
\* section with any start_note and end_note among the score's SymbTr indices
SectionLists(len, n) ==
    {[k \in DOMAIN se |->
        [start_note |-> se[k][1], end_note |-> se[k][2],
         melodic_structure |-> MelodicLabels[k],
         lyrics_structure |-> LyricsLabels[k]]] :
     se \in ListsOver((1..len) \X (1..len), n)}

\* the sorted duplicate-free lists of bounds in 0..MaxIdx
SortedLists == {SortedList(S) : S \in SUBSET (0..MaxIdx)}

(* ------------------------------- actions ------------------------------ *)

Init ==
    /\ crop_consecutive_bounds \in BOOLEAN
    /\ pc = "idle"
    /\ score = <<>>
    /\ first_note_idx = 0
    /\ given = <<>>
    /\ sections = <<>>
    /\ called = FALSE
    /\ bounds = <<>>
    /\ prev_bounds = <<>>
    /\ ncrop = 0
    /\ segments = <<>>
    /\ err = "none"

\* a call of an entry point that ends in _extract(b, sc, sections=secs)
CallExtract(method, b, sc, first, secs) ==
    LET r == _extract(b, sc, first, secs, crop_consecutive_bounds)
    IN  /\ pc' = method
        /\ score' = sc
        /\ first_note_idx' = first
        /\ given' = b
        /\ sections' = secs
        /\ called' = TRUE
        /\ bounds' = r.bounds
        /\ segments' = r.segments
        /\ err' = r.err
        /\ UNCHANGED <<crop_consecutive_bounds, prev_bounds, ncrop>>

\* a call of an entry point that returns [] without calling _extract
ReturnEmpty(method, b, sc, first, secs) ==
    /\ pc' = method
    /\ score' = sc
    /\ first_note_idx' = first
    /\ given' = b
    /\ sections' = secs
    /\ called' = FALSE
    /\ bounds' = <<>>
    /\ segments' = <<>>
    /\ err' = "none"
    /\ UNCHANGED <<crop_consecutive_bounds, prev_bounds, ncrop>>

extract_phrases(sc, first, secs) ==
    LET all_bounds == _get_all_bounds_in_score(bound_codes, sc, first)
    IN  IF anno_bounds(sc) # <<>>
        THEN CallExtract("extract_phrases", all_bounds, sc, first, secs)
        ELSE ReturnEmpty("extract_phrases", all_bounds, sc, first, secs)

extract_segments(sc, first, segment_note_bound_idx, secs) ==
    IF segment_note_bound_idx # <<>>
    THEN CallExtract("extract_segments", ToPythonIdx(segment_note_bound_idx),
                     sc, first, secs)
    ELSE ReturnEmpty("extract_segments", <<>>, sc, first, secs)

ExtractPhrases ==
    /\ pc = "idle"
    /\ \E n \in 1..MaxLen : \E sc \in [1..n -> Codes] :
       \E first \in FirstNoteIndices(sc) :
          extract_phrases(sc, first, <<>>)

ExtractSegments ==
    /\ pc = "idle"
    /\ \E n \in 1..MaxLen : \E first \in FirstNoteIndices(NoteScore(n)) :
       \E idx \in ListsOver(0..(n + 2), MaxBounds) :
          extract_segments(NoteScore(n), first, idx, <<>>)

\* segment_note_bound_idx is the 0-dimensional array of the automatic phrase
\* segmentation: it cannot be iterated, and the TypeError gives []
ExtractSegmentsTypeError ==
    /\ pc = "idle"
    /\ \E n \in 1..MaxLen : \E first \in FirstNoteIndices(NoteScore(n)) :
          ReturnEmpty("extract_segments", <<>>, NoteScore(n), first, <<>>)

ExtractSegmentsWithSections ==
    /\ pc = "idle"
    /\ \E n \in 1..SecLen : \E first \in FirstNoteIndices(NoteScore(n)) :
       \E b \in 0..(n + 2) : \E secs \in SectionLists(n, MaxSections) :
          extract_segments(NoteScore(n), first, <<b>>, secs)

\* _crop_consec_bounds(b, first) called on a sorted duplicate-free list
CropConsecBounds ==
    /\ pc = "idle"
    /\ \E b \in SortedLists : \E first \in 0..MaxIdx :
       LET r == _crop_consec_bounds(b, first)
       IN  /\ pc' = "_crop_consec_bounds"
           /\ first_note_idx' = first
           /\ given' = b
           /\ prev_bounds' = b
           /\ bounds' = r.bounds
           /\ err' = r.err
           /\ ncrop' = 1
           /\ UNCHANGED <<crop_consecutive_bounds, score, sections, called,
                          segments>>

\* _crop_consec_bounds called a second time on the list the first call left
CropAgain ==
    /\ pc = "_crop_consec_bounds"
    /\ ncrop = 1
    /\ err = "none"
    /\ LET r == _crop_consec_bounds(bounds, first_note_idx)
       IN  /\ prev_bounds' = bounds
           /\ bounds' = r.bounds
           /\ err' = r.err
           /\ ncrop' = 2
           /\ UNCHANGED <<crop_consecutive_bounds, pc, score, first_note_idx,
                          given, sections, called, segments>>

\* the call has returned (or raised): the extractor keeps its configuration
Return ==
    /\ pc # "idle"
    /\ pc' = "idle"
    /\ score' = <<>>
    /\ first_note_idx' = 0
    /\ given' = <<>>
    /\ sections' = <<>>
    /\ called' = FALSE
    /\ bounds' = <<>>
    /\ prev_bounds' = <<>>
    /\ ncrop' = 0
    /\ segments' = <<>>
    /\ err' = "none"
    /\ UNCHANGED crop_consecutive_bounds

Next ==
    \/ ExtractPhrases
    \/ ExtractSegments
    \/ ExtractSegmentsTypeError
    \/ CropConsecBounds
    \/ CropAgain
    \/ Return

Spec == Init /\ [][Next]_vars

NextSections ==
    \/ ExtractSegmentsWithSections
    \/ Return

SpecSections == Init /\ [][NextSections]_vars

(* --------------------------- claim helpers ---------------------------- *)

StrictlyAscending(b) == \A k \in 1..(Len(b) - 1) : b[k] < b[k + 1]

AllInScore(b, first, last) == \A x \in Range(b) : first <= x /\ x <= last

\* the last call was an entry point that reached _extract
Extracted == pc \in {"extract_phrases", "extract_segments"} /\ called

\* the last call was a direct call of _crop_consec_bounds
Cropped == pc = "_crop_consec_bounds"

RECURSIVE RuleScan(_, _, _, _)
\* the rule of the design's section 4.2 over the pairs k, k+1, ... of b:
\* next_to_start and the marks are sets of bound values
RuleScan(b, k, marked, next_to_start) ==
    IF k > Len(b) - 1 THEN marked
    ELSE IF b[k + 1] - b[k] = 1
         THEN IF b[k] \in next_to_start
              THEN RuleScan(b, k + 1, marked \cup {b[k + 1]},
                            next_to_start \cup {b[k + 1]})
              ELSE RuleScan(b, k + 1, marked \cup {b[k]}, next_to_start)
         ELSE RuleScan(b, k + 1, marked, next_to_start)

\* the list the rule leaves: the marked bounds removed as a set
RuleCrop(b, first) ==
    LET marked == RuleScan(b, 1, {}, {first + 1})
    IN  SelectSeq(b, LAMBDA x : x \notin marked)

NoneRaised == err = "none"

\* the bounds _parse_bounds sorted and tidied, before any cropping
Tidied == Tidy(given, first_note_idx, Len(score))

GivenInScore == AllInScore(given, first_note_idx, Len(score))

NoTwoConsecutive(b) == \A x \in Range(b) : x + 1 \notin Range(b)

\* the segments (by position) whose range start_note..end_note holds note n
SegmentsHolding(n) ==
    {k \in 1..Len(segments) :
        segments[k].start_note <= n /\ n <= segments[k].end_note}

\* the sections (by position) whose range, in SymbTr indices, holds note n
SectionsHolding(secs, n) ==
    {k \in 1..Len(secs) :
        secs[k].start_note <= n + 1 /\ n + 1 <= secs[k].end_note}

\* non-overlapping and covering every note of the score
WellFormedSections ==
    \A n \in 0..(Len(score) - 1) :
        Cardinality(SectionsHolding(sections, n)) = 1

\* two sections overlap on a note from the first note on, or such a note
\* lies in no section
SoundingNoteUnresolved ==
    \E n \in first_note_idx..(Len(score) - 1) :
        Cardinality(SectionsHolding(sections, n)) # 1

\* the supplied bounds lie in the score and the cropping removed none
BoundsKept == GivenInScore /\ bounds = Tidied

\* listed in ascending note order, none empty, none overlapping the next
OrderedSections ==
    /\ \A k \in 1..Len(sections) :
          sections[k].start_note <= sections[k].end_note
    /\ \A k \in 1..(Len(sections) - 1) :
          sections[k].end_note < sections[k + 1].start_note

\* the start or the end note of a segment of `bounds` lies in no section or
\* in more than one
SomeEndpointUnresolved ==
    \E pp \in 0..(Len(bounds) - 2) :
        \/ Cardinality(SectionsHolding(sections, bounds[pp + 1])) # 1
        \/ Cardinality(SectionsHolding(sections, bounds[pp + 2] - 1)) # 1

\* section k's range start_note-1 .. end_note-1 meets the segment's range
Intersects(k, seg) ==
    \E n \in seg.start_note..seg.end_note :
        sections[k].start_note - 1 <= n /\ n <= sections[k].end_note - 1

\* the entry of section k (by position) in a segment's 'sections'
SectionEntry(k) ==
    [section_idx |-> k - 1,
     melodic_structure |-> sections[k].melodic_structure,
     lyrics_structure |-> sections[k].lyrics_structure]

\* the entries, in ascending section index, of the sections of the set K
EntriesOf(K) ==
    LET ks == SortedList(K) IN [j \in 1..Len(ks) |-> SectionEntry(ks[j])]

\* the one section (by position) holding note n, when there is exactly one
TheSection(n) == CHOOSE k \in SectionsHolding(sections, n) : TRUE

(* ------------------------------- claims ------------------------------- *)

\* C1: for a supplied bound list whose indices all lie in
\* [first_note_idx, len(score)], the list _parse_bounds returns is strictly
\* ascending, has at least two elements, starts with first_note_idx and ends
\* with len(score['code']), with cropping on or off.
C1_ParsedBoundsAnchored ==
    (Extracted /\ GivenInScore) =>
        /\ NoneRaised
        /\ StrictlyAscending(bounds)
        /\ Len(bounds) >= 2
        /\ bounds[1] = first_note_idx
        /\ bounds[Len(bounds)] = Len(score)

\* C2: every segment _extract builds has start_note <= end_note, and each
\* segment's end_note + 1 is the next segment's start_note, so the segments
\* come in ascending score order.
C2_SegmentsContiguous ==
    Extracted =>
        /\ \A k \in 1..Len(segments) :
              segments[k].start_note <= segments[k].end_note
        /\ \A k \in 1..(Len(segments) - 1) :
              segments[k].end_note + 1 = segments[k + 1].start_note

C2_Witness ==
    /\ Extracted
    /\ Len(segments) >= 3
    /\ \E k \in 1..Len(segments) :
          segments[k].start_note < segments[k].end_note

\* C3: cropping is idempotent: a second call of _crop_consec_bounds, with
\* the same first_bound_idx, on the list a first call left leaves that list
\* unchanged (and neither call raises).
C3_CropIdempotent ==
    Cropped => /\ NoneRaised
               /\ ncrop = 2 => bounds = prev_bounds

C3_Witness ==
    /\ Cropped
    /\ ncrop = 2
    /\ Len(given) - Len(bounds) >= 3
    /\ Len(bounds) >= 2

\* C4: when the bound list handed to _parse_bounds holds an index outside
\* [first_note_idx, len(score)], the call fails with the out-of-range
\* assertion and returns no segments, with cropping on or off.
C4_OutOfRangeFails ==
    (Extracted /\ ~GivenInScore) =>
        /\ err = "OutOfRange"
        /\ segments = <<>>

\* C5 as claimed: a well-formed section list raises nothing, and a section
\* list with an overlap or a gap on some note of the score makes the
\* extraction fail with the assertion of _get_section_idx.  Stated for the
\* calls whose bounds lie in the score and are all kept, and for the notes
\* from first_note_idx on.
C5_MalformedSectionsFail ==
    (Extracted /\ sections # <<>> /\ BoundsKept) =>
        /\ WellFormedSections => NoneRaised
        /\ SoundingNoteUnresolved =>
              (err = "AmbiguousSection" /\ segments = <<>>)

\* C5 as amended: with a well-formed section list every note resolves to
\* exactly one section and nothing is raised; the extraction fails with the
\* assertion of _get_section_idx, and returns no segments, exactly when the
\* start note or the end note of some segment lies in no section or in more
\* than one section of a non-empty list.
C5_SectionResolution ==
    (Extracted /\ sections # <<>> /\ err # "OutOfRange") =>
        /\ WellFormedSections =>
              /\ NoneRaised
              /\ \A n \in 0..(Len(score) - 1) :
                    _get_section_idx(sections, n).err = "none"
        /\ err = "AmbiguousSection" <=> SomeEndpointUnresolved
        /\ err = "AmbiguousSection" => segments = <<>>
        /\ NoneRaised => Len(segments) = Len(bounds) - 1

C5_Witness ==
    /\ Extracted
    /\ Len(sections) = 2
    /\ err = "AmbiguousSection"
    /\ Len(bounds) >= 3
    /\ \E n \in 0..(Len(score) - 1) :
          Cardinality(SectionsHolding(sections, n)) = 2

\* C6 as claimed: whenever a segment's start and end note each resolve to
\* one section, its 'sections' lists, in ascending index and once each,
\* exactly the sections whose note range intersects the segment's range.
\* Stated for the calls whose bounds lie in the score and are all kept.
C6_SectionsIntersecting ==
    (Extracted /\ sections # <<>> /\ NoneRaised /\ BoundsKept) =>
        \A s \in 1..Len(segments) :
            segments[s].sections =
                EntriesOf({k \in 1..Len(sections) :
                              Intersects(k, segments[s])})

\* C6 as amended: a segment's 'sections' lists, in ascending index, the
\* sections from the one holding its start note to the one holding its end
\* note (none when the former comes later in the list), with the structures
\* of each; when the sections are listed in ascending note order without
\* overlap, these are exactly the sections whose range intersects the
\* segment's.
C6_SectionsOfSegment ==
    (Extracted /\ sections # <<>> /\ NoneRaised) =>
        \A s \in 1..Len(segments) :
            /\ segments[s].sections =
                   EntriesOf(TheSection(segments[s].start_note) ..
                             TheSection(segments[s].end_note))
            /\ OrderedSections =>
                   segments[s].sections =
                       EntriesOf({k \in 1..Len(sections) :
                                     Intersects(k, segments[s])})

C6_Witness ==
    /\ Extracted
    /\ NoneRaised
    /\ OrderedSections
    /\ Len(segments) = 2
    /\ Len(segments[1].sections) = 2
    /\ segments[2].sections = <<SectionEntry(2)>>

\* C7: in extract_phrases on a score with an annotation code, every note
\* index i > first_note_idx whose code is 51 is a bound of the normalized
\* list and the start of one of the phrases built.
C7_UsulChangeStartsPhrase ==
    (pc = "extract_phrases" /\ called) =>
        \A i \in (first_note_idx + 1)..(Len(score) - 1) :
            score[i + 1] = 51 =>
                /\ i \in Range(bounds)
                /\ \E k \in 1..Len(segments) : segments[k].start_note = i

\* C8: on a sorted duplicate-free list that holds first_bound_idx and no
\* smaller bound, the list _crop_consec_bounds leaves (positions in
\* next_to_start_idx, pops by position, a position possibly twice) is the
\* list of the rule of section 4.2, stated over bound values with the
\* marked bounds removed as a set.
C8_CropIsRule ==
    /\ (Cropped /\ ncrop = 1 /\ first_note_idx \in Range(given)
          /\ \A x \in Range(given) : x >= first_note_idx) =>
           (NoneRaised /\ bounds = RuleCrop(given, first_note_idx))
    /\ (Extracted /\ crop_consecutive_bounds /\ GivenInScore) =>
           bounds = RuleCrop(Tidied, first_note_idx)

\* a position is popped twice
C8_Witness ==
    /\ Cropped
    /\ ncrop = 1
    /\ first_note_idx \in Range(given)
    /\ \A x \in Range(given) : x >= first_note_idx
    /\ LET d == CropScan(given, 0, <<>>, <<first_note_idx + 1>>).del_idx
       IN  \E i, j \in 1..Len(d) : i < j /\ d[i] = d[j]
    /\ Len(bounds) >= 2

\* C9: when _extract succeeds on a bound list whose indices all lie in
\* [first_note_idx, len(score)], every note index from first_note_idx to
\* len(score) - 1 lies in the range of exactly one segment.
C9_SegmentsPartition ==
    (Extracted /\ NoneRaised /\ GivenInScore) =>
        \A n \in first_note_idx..(Len(score) - 1) :
            Cardinality(SegmentsHolding(n)) = 1

\* C10: the list _crop_consec_bounds leaves has no two elements one apart,
\* every element it removed was one apart from another element of its
\* input, and every segment built from cropped bounds spans two notes or
\* more.
C10_CropLeavesNoNeighbours ==
    /\ Cropped =>
          /\ NoneRaised
          /\ NoTwoConsecutive(bounds)
          /\ Range(bounds) \subseteq Range(prev_bounds)
          /\ \A x \in Range(prev_bounds) \ Range(bounds) :
                x + 1 \in Range(prev_bounds) \/ x - 1 \in Range(prev_bounds)
    /\ (Extracted /\ crop_consecutive_bounds) =>
          /\ NoTwoConsecutive(bounds)
          /\ \A k \in 1..Len(segments) :
                segments[k].end_note - segments[k].start_note >= 1

C10_Witness ==
    /\ Extracted
    /\ crop_consecutive_bounds
    /\ Len(bounds) < Len(Tidied)
    /\ Len(segments) >= 2

====
